---- MODULE Spec2Model ----
(***************************************************************************)
(* The CockroachDB dialect of the ORM: its capability descriptor, its bind *)
(* collector, its data types, and the constraint operations its            *)
(* integration test drives against the database.                           *)
(*                                                                         *)
(* Four components, each with its own specification over the same          *)
(* variables:                                                              *)
(*   SpecDialect  capability descriptor, dropDatabaseQuery                 *)
(*   SpecBind     createBindCollector and the collectors it returns        *)
(*   SpecDb       addConstraint / removeConstraint / showConstraints       *)
(*   SpecTypes    the data types of data-types.ts                          *)
(***************************************************************************)
EXTENDS Integers, Sequences, FiniteSets, TLC

VARIABLES
  dialectName,      \* AbstractDialect.name of the dialect under test
  supports,         \* the dialect's resolved capability descriptor
  quoteIdentifiers, \* sequelize option quoteIdentifiers
  lastQuery,        \* outcome of the last query-generator call
  lastRead,         \* last value read from the capability descriptor
  collectors,       \* heap of bind collectors, indexed by reference
  stmts,            \* the statements being rendered
  schema,           \* whether the table is addressed with a schema
  committed,        \* constraints of table actors, committed state
  tx,               \* the caller's unmanaged transaction
  emitted,          \* statements the last call sent to the database
  lastOp,           \* the last query-interface call and its outcome
  dataType,         \* the data type instance under construction / use
  warnings,         \* advisories recorded by dialect.warnDataTypeIssue
  lastCall,         \* outcome of the last data-type method call
  usageContext,     \* the (table, column) context the data type is attached to
  run               \* the statement-rendering run handling one value

dialectVars == <<dialectName, supports, quoteIdentifiers, lastQuery, lastRead>>
bindVars == <<collectors, stmts>>
dbVars == <<schema, committed, tx, emitted, lastOp>>
typeVars == <<dataType, warnings, lastCall, usageContext, run>>
vars == <<dialectName, supports, quoteIdentifiers, lastQuery, lastRead,
          collectors, stmts, schema, committed, tx, emitted, lastOp,
          dataType, warnings, lastCall, usageContext, run>>

None == "<none>"

(***************************************************************************)
(* Capability descriptors: a tree whose inner nodes are mappings from key  *)
(* to node and whose leaves are JavaScript scalars, written as strings.    *)
(***************************************************************************)
Leaf(v) == [leaf |-> TRUE, val |-> v, kids |-> [k \in {} |-> None]]
Map(f) == [leaf |-> FALSE, val |-> None, kids |-> f]
\* The value of a key that is not there.
Undefined == Leaf("<undefined>")
T == Leaf("true")
F == Leaf("false")

\* AbstractDialect.supports, the defaults every dialect starts from.
AbstractSupports ==
  Map("DEFAULT VALUES" :> F @@ "ON DUPLICATE KEY" :> T @@ "ORDER NULLS" :> F
      @@ "returnValues" :> F @@ "bulkDefault" :> F @@ "schemas" :> F
      @@ "multiDatabases" :> F @@ "lock" :> F @@ "lockOf" :> F
      @@ "forShare" :> F @@ "autoIncrement" :> T
      @@ "index" :> Map("collate" :> T @@ "length" :> F @@ "parser" :> F
                        @@ "concurrently" :> F @@ "type" :> F @@ "using" :> T
                        @@ "functionBased" :> F @@ "operator" :> F
                        @@ "where" :> F @@ "include" :> F)
      @@ "inserts" :> Map("ignoreDuplicates" :> Leaf("")
                          @@ "updateOnDuplicate" :> F
                          @@ "onConflictDoNothing" :> Leaf("")
                          @@ "onConflictWhere" :> F @@ "conflictFields" :> F)
      @@ "constraints" :> Map("check" :> T @@ "default" :> F @@ "unique" :> T
                              @@ "foreignKey" :> T @@ "primaryKey" :> T)
      @@ "dataTypes" :> Map("CHAR" :> T @@ "COLLATE_BINARY" :> F
                            @@ "ARRAY" :> F @@ "RANGE" :> F @@ "GEOMETRY" :> F
                            @@ "GEOGRAPHY" :> F @@ "JSON" :> F @@ "JSONB" :> F
                            @@ "HSTORE" :> F @@ "TSVECTOR" :> F @@ "CITEXT" :> F
                            @@ "CIDR" :> F @@ "MACADDR" :> F @@ "INET" :> F
                            @@ "DATETIME" :> Map("infinity" :> F)
                            @@ "DATEONLY" :> Map("infinity" :> F)
                            @@ "FLOAT" :> Map("NaN" :> F @@ "infinity" :> F)
                            @@ "REAL" :> Map("NaN" :> F @@ "infinity" :> F)
                            @@ "DOUBLE" :> Map("NaN" :> F @@ "infinity" :> F)
                            @@ "DECIMAL" :> Map("constrained" :> T
                                                @@ "unconstrained" :> F
                                                @@ "NaN" :> F @@ "infinity" :> F))
      @@ "jsonOperations" :> F @@ "REGEXP" :> F @@ "IREGEXP" :> F
      @@ "deferrableConstraints" :> F @@ "searchPath" :> F
      @@ "escapeStringConstants" :> F @@ "globalTimeZoneConfig" :> F
      @@ "dropTable" :> Map("cascade" :> F @@ "concurrentDropConstraints" :> T)
      @@ "EXCEPTION" :> F)

\* A descriptor override that turns multi-database support off.
CockroachDbSupportsOverride_NoDatabases ==
  Map("multiDatabases" :> F @@ "schemas" :> T)

\* The argument of extendSupport in CockroachDbDialect.supports.
CockroachDbSupportsOverride ==
  Map("DEFAULT VALUES" :> T @@ "ON DUPLICATE KEY" :> F @@ "ORDER NULLS" :> T
      @@ "returnValues" :> Leaf("returning") @@ "bulkDefault" :> T
      @@ "schemas" :> T @@ "multiDatabases" :> T @@ "lock" :> T
      @@ "lockOf" :> T @@ "forShare" :> Leaf("FOR SHARE")
      @@ "index" :> Map("concurrently" :> T @@ "using" :> Leaf("2")
                        @@ "where" :> T @@ "functionBased" :> T
                        @@ "operator" :> T @@ "include" :> T)
      @@ "inserts" :> Map("onConflictDoNothing" :> Leaf(" ON CONFLICT DO NOTHING")
                          @@ "updateOnDuplicate" :> Leaf(" ON CONFLICT DO UPDATE SET")
                          @@ "conflictFields" :> T)
      @@ "dataTypes" :> Map("ARRAY" :> T @@ "RANGE" :> T @@ "GEOMETRY" :> T
                            @@ "GEOGRAPHY" :> T @@ "JSON" :> T @@ "JSONB" :> T
                            @@ "HSTORE" :> T @@ "TSVECTOR" :> T @@ "CITEXT" :> T
                            @@ "DATETIME" :> Map("infinity" :> T)
                            @@ "DATEONLY" :> Map("infinity" :> T)
                            @@ "FLOAT" :> Map("NaN" :> T @@ "infinity" :> T)
                            @@ "REAL" :> Map("NaN" :> T @@ "infinity" :> T)
                            @@ "DOUBLE" :> Map("NaN" :> T @@ "infinity" :> T)
                            @@ "DECIMAL" :> Map("unconstrained" :> T @@ "NaN" :> T
                                                @@ "infinity" :> T)
                            @@ "CIDR" :> T @@ "MACADDR" :> T @@ "INET" :> T)
      @@ "jsonOperations" :> T @@ "REGEXP" :> T @@ "IREGEXP" :> T
      @@ "deferrableConstraints" :> T @@ "searchPath" :> T
      @@ "escapeStringConstants" :> T @@ "globalTimeZoneConfig" :> T
      @@ "dropTable" :> Map("cascade" :> T)
      @@ "EXCEPTION" :> F)

\* Object.assign-like merge: a key of the override replaces the base's whole
\* value for that key.
shallowMerge(base, override) ==
  IF base.leaf \/ override.leaf THEN override
  ELSE Map([k \in (DOMAIN base.kids) \cup (DOMAIN override.kids) |->
             IF k \in DOMAIN override.kids THEN override.kids[k]
             ELSE base.kids[k]])

\* lodash merge(cloneDeep(base), override): mappings are merged key by key,
\* recursively; anything else in the override replaces the base's value.
RECURSIVE merge(_, _)
merge(base, override) ==
  IF base.leaf \/ override.leaf THEN override
  ELSE Map([k \in (DOMAIN base.kids) \cup (DOMAIN override.kids) |->
             IF k \notin DOMAIN override.kids THEN base.kids[k]
             ELSE IF k \notin DOMAIN base.kids THEN override.kids[k]
             ELSE merge(base.kids[k], override.kids[k])])

\* AbstractDialect.extendSupport(supportsOverwrite)
extendSupport(base, override) == merge(base, override)

\* supports.a.b.c: the node at a path, Undefined where a key is absent.
RECURSIVE Get(_, _)
Get(desc, path) ==
  IF path = <<>> THEN desc
  ELSE IF desc.leaf \/ Head(path) \notin DOMAIN desc.kids THEN Undefined
  ELSE Get(desc.kids[Head(path)], Tail(path))

\* The paths of a descriptor's leaves.
RECURSIVE LeafPaths(_)
LeafPaths(desc) ==
  IF desc.leaf THEN {<<>>}
  ELSE UNION {{<<k>> \o p : p \in LeafPaths(desc.kids[k])} : k \in DOMAIN desc.kids}

IsPrefix(p, q) == Len(p) <= Len(q) /\ SubSeq(q, 1, Len(p)) = p

(***************************************************************************)
(* The dialects the unit and integration tests name.                       *)
(***************************************************************************)
Dialects == {"cockroachdb", "postgres", "snowflake", "mssql", "mysql", "mariadb", "sqlite"}

\* The descriptor override of each dialect, as far as the tests rely on it.
DialectSupportsOverride(d) ==
  IF d = "cockroachdb" THEN CockroachDbSupportsOverride
  ELSE IF d \in {"postgres", "snowflake"}
    THEN Map("multiDatabases" :> T @@ "schemas" :> T)
  ELSE IF d = "mssql"
    THEN Map("multiDatabases" :> T @@ "schemas" :> T
             @@ "constraints" :> Map("default" :> T))
  ELSE IF d \in {"mysql", "mariadb"}
    THEN Map("schemas" :> T @@ "index" :> Map("length" :> T))
  ELSE Map("index" :> Map("using" :> F))

\* static readonly supports = AbstractDialect.extendSupport({...})
DialectSupports(d) == extendSupport(AbstractSupports, DialectSupportsOverride(d))

\* The grave accent character (U+0060), which a string literal of this
\* module cannot hold.
GraveAccent == "<U+0060>"

\* TICK_CHAR_LEFT / TICK_CHAR_RIGHT
TICK_CHAR_LEFT(d) ==
  IF d = "cockroachdb" THEN GraveAccent
  ELSE IF d = "mssql" THEN "["
  ELSE IF d \in {"mysql", "mariadb"} THEN GraveAccent ELSE "\""

TICK_CHAR_RIGHT(d) ==
  IF d = "cockroachdb" THEN GraveAccent
  ELSE IF d = "mssql" THEN "]"
  ELSE IF d \in {"mysql", "mariadb"} THEN GraveAccent ELSE "\""

getDefaultSchema == "defaultdb"

getDefaultPort == 26257

\* QueryGenerator#quoteIdentifier under the quoteIdentifiers option
quoteIdentifier(d, quote, identifier) ==
  IF quote THEN TICK_CHAR_LEFT(d) \o identifier \o TICK_CHAR_RIGHT(d)
  ELSE identifier

NoResult == [kind |-> "none", text |-> ""]
NoQuery == [op |-> "none", database |-> "", result |-> NoResult]
NoRead == [path |-> <<>>, value |-> Undefined]
Threw(message) == [kind |-> "error", text |-> message]
Returned(text) == [kind |-> "sql", text |-> text]

\* A dropDatabaseQuery that emits the statement without consulting the
\* capability descriptor.
dropDatabaseQuery_ungated(d, desc, quote, database) ==
  Returned("DROP DATABASE IF EXISTS " \o quoteIdentifier(d, quote, database) \o ";")

\* QueryGenerator#dropDatabaseQuery(database)
dropDatabaseQuery(d, desc, quote, database) ==
  IF Get(desc, <<"multiDatabases">>) # T
    THEN Threw("Databases are not supported in " \o d \o ".")
  ELSE IF d = "mssql"
    THEN Returned("IF EXISTS (SELECT * FROM sys.databases WHERE name = N'"
                  \o database \o "' ) BEGIN DROP DATABASE "
                  \o quoteIdentifier(d, TRUE, database) \o " ; END;")
  ELSE Returned("DROP DATABASE IF EXISTS " \o quoteIdentifier(d, quote, database) \o ";")

\* The unit test's expectation table, [x] standing for x in the dialect's
\* identifier quotes.
expectsql(d, quote, database) ==
  IF d \in {"postgres", "snowflake", "cockroachdb"}
    THEN Returned("DROP DATABASE IF EXISTS "
                  \o (IF quote THEN TICK_CHAR_LEFT(d) \o database \o TICK_CHAR_RIGHT(d)
                      ELSE database)
                  \o ";")
  ELSE IF d = "mssql"
    THEN Returned("IF EXISTS (SELECT * FROM sys.databases WHERE name = N'"
                  \o database \o "' ) BEGIN DROP DATABASE "
                  \o TICK_CHAR_LEFT(d) \o database \o TICK_CHAR_RIGHT(d) \o " ; END;")
  ELSE Threw("Databases are not supported in " \o d \o ".")

DatabaseNames == {"myDatabase", "archive", "defaultdb"}

\* Capability paths that callers read.
ReadPaths ==
  {<<"constraints", "check">>, <<"constraints", "default">>,
   <<"constraints", "unique">>, <<"constraints", "foreignKey">>,
   <<"schemas">>, <<"multiDatabases">>, <<"dataTypes", "DATETIME", "infinity">>,
   <<"dataTypes", "DECIMAL", "constrained">>, <<"index", "collate">>,
   <<"index", "using">>, <<"inserts", "ignoreDuplicates">>,
   <<"dropTable", "concurrentDropConstraints">>, <<"dropTable", "cascade">>}

(***************************************************************************)
(* Component: dialect construction and the query generator.                *)
(***************************************************************************)
InitBindIdle == collectors = <<>> /\ stmts = <<>>
NoTransaction == [active |-> FALSE, view |-> {}, log |-> <<>>]
NoOp == [op |-> "none", name |-> "", type |-> "", transaction |-> FALSE,
         ok |-> FALSE, added |-> "", addedName |-> ""]
InitDbIdle ==
  /\ schema = FALSE
  /\ committed = {}
  /\ tx = NoTransaction
  /\ emitted = <<>>
  /\ lastOp = NoOp

\* JavaScript values: number (finite, Infinity, -Infinity), string, Date
\* instance, null, undefined, array; Absent is the state of a deleted key.
JsValue(t, n, s, e) == [t |-> t, n |-> n, s |-> s, e |-> e]
JsAbsent == JsValue("absent", 0, "", <<>>)
JsUndefined == JsValue("undefined", 0, "", <<>>)
JsNull == JsValue("null", 0, "", <<>>)
JsNum(n) == JsValue("number", n, "finite", <<>>)
JsInfinity == JsValue("number", 0, "Infinity", <<>>)
JsNegInfinity == JsValue("number", 0, "-Infinity", <<>>)
JsStr(str) == JsValue("string", 0, str, <<>>)
JsDate(iso) == JsValue("Date", 0, iso, <<>>)
JsArr(elements) == JsValue("array", 0, "", elements)

NoType == [kind |-> "none", length |-> JsAbsent, unsigned |-> FALSE,
           precision |-> JsAbsent, type |-> "none", values |-> <<>>]
NoOutcome == [threw |-> FALSE, error |-> "", message |-> "", value |-> JsUndefined,
              superCalls |-> 0]
NoCall == [op |-> "none", arg |-> JsUndefined, given |-> NoType, advisories |-> <<>>,
           outcome |-> NoOutcome]
\* AbstractDataType.usageContext before the type is attached.
NoContext == [kind |-> "none", tableName |-> "", attributeName |-> "", field |-> None,
              columnName |-> ""]
\* No value is being rendered.
NoRun == [phase |-> "idle", type |-> NoType, value |-> JsUndefined, mode |-> "",
          calls |-> <<>>, sql |-> "", bound |-> <<>>, threw |-> FALSE]
InitTypesIdle ==
  /\ dataType = NoType /\ warnings = <<>> /\ lastCall = NoCall
  /\ usageContext = NoContext /\ run = NoRun

InitDialect ==
  /\ dialectName \in Dialects
  /\ supports = DialectSupports(dialectName)
  /\ quoteIdentifiers \in BOOLEAN
  /\ lastQuery = NoQuery
  /\ lastRead = NoRead
  /\ InitBindIdle /\ InitDbIdle /\ InitTypesIdle

\* queryGenerator.dropDatabaseQuery(database)
DropDatabaseQuery(database) ==
  /\ lastQuery' = [op |-> "dropDatabaseQuery", database |-> database,
                   result |-> dropDatabaseQuery(dialectName, supports,
                                                quoteIdentifiers, database)]
  /\ UNCHANGED <<dialectName, supports, quoteIdentifiers, lastRead>>
  /\ UNCHANGED <<bindVars, dbVars, typeVars>>

\* sequelize.dialect.supports.<path>
ReadSupport(path) ==
  /\ lastRead' = [path |-> path, value |-> Get(supports, path)]
  /\ UNCHANGED <<dialectName, supports, quoteIdentifiers, lastQuery>>
  /\ UNCHANGED <<bindVars, dbVars, typeVars>>

NextDialect ==
  \/ \E database \in DatabaseNames : DropDatabaseQuery(database)
  \/ \E path \in ReadPaths : ReadSupport(path)

SpecDialect == InitDialect /\ [][NextDialect]_vars

\* C1: on every dialect whose descriptor marks databases unsupported,
\* dropDatabaseQuery raises 'Databases are not supported in <dialect name>.'
\* and returns no SQL text, with quoteIdentifiers on and off.
C1_UnsupportedDatabasesRaise ==
  (lastQuery # NoQuery /\ Get(supports, <<"multiDatabases">>) # T)
    => /\ lastQuery.result.kind = "error"
       /\ lastQuery.result.text = "Databases are not supported in " \o dialectName \o "."
       /\ lastQuery.result = expectsql(dialectName, quoteIdentifiers, lastQuery.database)

C1_Witness ==
  /\ lastQuery # NoQuery
  /\ Get(supports, <<"multiDatabases">>) # T
  /\ dialectName = "sqlite"
  /\ ~quoteIdentifiers
  /\ lastQuery.result.kind = "error"

\* C2: on cockroachdb, postgres and snowflake dropDatabaseQuery returns
\* exactly 'DROP DATABASE IF EXISTS <id>;', <id> being the name in the
\* dialect's identifier quotes when quoteIdentifiers is on and the bare
\* name when it is off.
C2_DropDatabaseStatement ==
  (lastQuery # NoQuery /\ dialectName \in {"cockroachdb", "postgres", "snowflake"})
    => /\ lastQuery.result = expectsql(dialectName, quoteIdentifiers, lastQuery.database)
       /\ lastQuery.result.kind = "sql"
       /\ quoteIdentifiers =>
            lastQuery.result.text = "DROP DATABASE IF EXISTS " \o TICK_CHAR_LEFT(dialectName)
               \o lastQuery.database \o TICK_CHAR_RIGHT(dialectName) \o ";"
       /\ ~quoteIdentifiers =>
            lastQuery.result.text = "DROP DATABASE IF EXISTS " \o lastQuery.database \o ";"

C2_Witness ==
  /\ lastQuery # NoQuery
  /\ dialectName = "cockroachdb"
  /\ ~quoteIdentifiers
  /\ lastQuery.result = Returned("DROP DATABASE IF EXISTS myDatabase;")

\* The base leaves that the CockroachDB override neither sets nor replaces.
UntouchedBasePaths ==
  {p \in LeafPaths(AbstractSupports) :
     \A q \in LeafPaths(CockroachDbSupportsOverride) : ~IsPrefix(q, p) /\ ~IsPrefix(p, q)}

\* C10: the CockroachDB descriptor is the deep merge of the abstract
\* defaults with the override: every override path has the override's
\* value, every sibling key the override does not mention keeps its base
\* default, and the descriptor never changes after construction.
C10_Merged ==
  dialectName = "cockroachdb" =>
    /\ \A p \in LeafPaths(CockroachDbSupportsOverride) :
         Get(supports, p) = Get(CockroachDbSupportsOverride, p)
    /\ \A p \in UntouchedBasePaths : Get(supports, p) = Get(AbstractSupports, p)
    /\ LeafPaths(supports) = LeafPaths(CockroachDbSupportsOverride) \cup UntouchedBasePaths
    /\ lastRead # NoRead => lastRead.value = Get(supports, lastRead.path)

C10_DeepMerge == []C10_Merged /\ [][supports' = supports]_vars

C10_Witness ==
  /\ dialectName = "cockroachdb"
  /\ lastRead # NoRead
  /\ lastRead.path = <<"index", "collate">>
  /\ lastRead.value = T
  /\ Get(supports, <<"index", "using">>) = Leaf("2")
  /\ <<"dataTypes", "DECIMAL", "constrained">> \in UntouchedBasePaths

(***************************************************************************)
(* Component: bind collectors.                                             *)
(***************************************************************************)
MaxBinds == 3

StatementIds == {"select", "insert"}
BindValues == {"v1", "v2"}

\* createSpecifiedOrderedBindCollector(): positional placeholders $1, $2, ...
createSpecifiedOrderedBindCollector == [kind |-> "specified", bind |-> <<>>]

\* createUnspecifiedOrderedBindCollector(): the anonymous placeholder ?
createUnspecifiedOrderedBindCollector == [kind |-> "unspecified", bind |-> <<>>]

\* BindCollector.collect(value): the collector after the call and the
\* placeholder the call returns.
collect(collector, value) ==
  [collector |-> [collector EXCEPT !.bind = Append(@, value)],
   placeholder |-> IF collector.kind = "specified"
                     THEN "$" \o ToString(Len(collector.bind) + 1)
                     ELSE "?"]

\* BindCollector.getBindParams()
getBindParams(collector) == collector.bind

\* A createBindCollector that hands out the anonymous-placeholder collector.
createBindCollector_unspecified(heap) ==
  [heap |-> Append(heap, createUnspecifiedOrderedBindCollector), ref |-> Len(heap) + 1]

\* A createBindCollector that keeps one collector per dialect and hands it
\* out again.
createBindCollector_shared(heap) ==
  IF heap = <<>>
    THEN [heap |-> Append(heap, createSpecifiedOrderedBindCollector), ref |-> 1]
    ELSE [heap |-> heap, ref |-> 1]

\* CockroachDbDialect.createBindCollector(): the heap with the new
\* collector allocated, and the reference returned.
createBindCollector(heap) ==
  [heap |-> Append(heap, createSpecifiedOrderedBindCollector), ref |-> Len(heap) + 1]

\* A statement whose render has not started holds no collector reference.
NoStatement == [ref |-> 0, sql |-> <<>>, placeholders |-> <<>>, bound |-> <<>>]

\* The render of the statement has its collector.
Begun(statement) == statement.ref > 0

InitDialectIdle ==
  /\ dialectName = "cockroachdb"
  /\ supports = DialectSupports("cockroachdb")
  /\ quoteIdentifiers = TRUE
  /\ lastQuery = NoQuery
  /\ lastRead = NoRead

InitBind ==
  /\ collectors = <<>>
  /\ stmts = [s \in StatementIds |-> NoStatement]
  /\ InitDialectIdle /\ InitDbIdle /\ InitTypesIdle

\* A render of statement s starts: it asks the dialect for a collector.
BeginStatement(s) ==
  /\ ~Begun(stmts[s])
  /\ LET made == createBindCollector(collectors) IN
       /\ collectors' = made.heap
       /\ stmts' = [stmts EXCEPT ![s].ref = made.ref]
  /\ UNCHANGED <<dialectVars, dbVars, typeVars>>

\* The render of s binds a value and splices the placeholder into its text.
Bind(s, value) ==
  /\ Begun(stmts[s])
  /\ Len(stmts[s].bound) < MaxBinds
  /\ LET got == collect(collectors[stmts[s].ref], value) IN
       /\ collectors' = [collectors EXCEPT ![stmts[s].ref] = got.collector]
       /\ stmts' = [stmts EXCEPT ![s].sql = Append(@, got.placeholder),
                                 ![s].placeholders = Append(@, got.placeholder),
                                 ![s].bound = Append(@, value)]
  /\ UNCHANGED <<dialectVars, dbVars, typeVars>>

\* The render of s appends literal SQL text (adjacent text is one fragment).
ComposeText(s) ==
  /\ Begun(stmts[s])
  /\ IF stmts[s].sql = <<>> THEN TRUE ELSE stmts[s].sql[Len(stmts[s].sql)] # "text"
  /\ stmts' = [stmts EXCEPT ![s].sql = Append(@, "text")]
  /\ UNCHANGED collectors
  /\ UNCHANGED <<dialectVars, dbVars, typeVars>>

NextBind ==
  \/ \E s \in StatementIds : BeginStatement(s)
  \/ \E s \in StatementIds, value \in BindValues : Bind(s, value)
  \/ \E s \in StatementIds : ComposeText(s)

SpecBind == InitBind /\ [][NextBind]_vars

\* The number n of a positional placeholder $n, 0 for any other text.
PlaceholderIndex(p) ==
  IF \E n \in 1..(2 * MaxBinds) : p = "$" \o ToString(n)
    THEN CHOOSE n \in 1..(2 * MaxBinds) : p = "$" \o ToString(n)
    ELSE 0

\* C7: for one collector from createBindCollector(), after N bind calls
\* with values v1..vN, interleaved with text composition, the N placeholders
\* are pairwise distinct and increase in call order, and the collector's
\* final value list is [v1..vN], the i-th placeholder referring to the i-th
\* value, also when a value is bound more than once.
C7_PlaceholderOrder ==
  \A s \in StatementIds :
    Begun(stmts[s]) =>
      LET ps == stmts[s].placeholders
          vs == stmts[s].bound
          final == getBindParams(collectors[stmts[s].ref])
      IN /\ Len(ps) = Len(vs)
         /\ \A i, j \in 1..Len(ps) : i < j =>
              /\ ps[i] # ps[j]
              /\ PlaceholderIndex(ps[i]) < PlaceholderIndex(ps[j])
         /\ \A i \in 1..Len(ps) :
              /\ PlaceholderIndex(ps[i]) \in 1..Len(final)
              /\ final[PlaceholderIndex(ps[i])] = vs[i]
         /\ final = vs

C7_Witness ==
  \E s \in StatementIds :
    /\ stmts[s].bound = <<"v1", "v2", "v1">>
    /\ stmts[s].placeholders = <<"$1", "$2", "$3">>
    /\ stmts[s].sql = <<"text", "$1", "$2", "text", "$3">>
    /\ getBindParams(collectors[stmts[s].ref]) = <<"v1", "v2", "v1">>

\* What rendering a statement alone, on a dialect that rendered nothing
\* before, gives for a sequence of bound values.
RECURSIVE RenderAlone(_, _)
RenderAlone(collector, values) ==
  IF values = <<>> THEN [placeholders |-> <<>>, final |-> getBindParams(collector)]
  ELSE LET got == collect(collector, Head(values))
           rest == RenderAlone(got.collector, Tail(values))
       IN [placeholders |-> <<got.placeholder>> \o rest.placeholders,
           final |-> rest.final]

FreshCollector ==
  LET made == createBindCollector(<<>>) IN made.heap[made.ref]

C8_Isolated ==
  \A s \in StatementIds :
    Begun(stmts[s]) =>
      LET alone == RenderAlone(FreshCollector, stmts[s].bound) IN
        /\ stmts[s].placeholders = alone.placeholders
        /\ getBindParams(collectors[stmts[s].ref]) = alone.final
        /\ \A t \in StatementIds : t # s /\ Begun(stmts[t]) => stmts[t].ref # stmts[s].ref

C8_Step ==
  /\ \A s \in StatementIds :
       (~Begun(stmts[s]) /\ Begun(stmts'[s]))
         => getBindParams(collectors'[stmts'[s].ref]) = <<>>
  /\ \A s \in StatementIds :
       (Begun(stmts[s]) /\ stmts'[s].bound = stmts[s].bound)
         => collectors'[stmts'[s].ref] = collectors[stmts[s].ref]
  /\ UNCHANGED <<dialectVars, dbVars, typeVars>>

\* C8: every createBindCollector() call returns a fresh collector with an
\* empty value list; with the bind calls of two statements interleaved in
\* any order, each collector's placeholders and final value list are what
\* rendering that statement alone gives, and bind changes no dialect-level
\* or process-wide state.
C8_FreshCollectors == []C8_Isolated /\ [][C8_Step]_vars

C8_Witness ==
  /\ stmts["select"].bound = <<"v1", "v2">>
  /\ stmts["insert"].bound = <<"v2", "v2", "v1">>
  /\ stmts["select"].placeholders = <<"$1", "$2">>
  /\ stmts["insert"].placeholders = <<"$1", "$2", "$3">>
  /\ stmts["insert"].ref = 1
  /\ stmts["select"].ref = 2

(***************************************************************************)
(* Component: constraints of table actors, as the integration test of      *)
(* QueryInterface#removeConstraint drives them.                            *)
(***************************************************************************)
MaxTxLog == 3

DbDialects == {"cockroachdb", "postgres", "mysql", "mariadb", "mssql"}
ConstraintTypes == {"CHECK", "DEFAULT", "UNIQUE", "FOREIGN KEY", "PRIMARY KEY"}
ConstraintNames == {"custom_constraint_name", "custom_constraint_name_2"}
ListedNames == ConstraintNames \cup {"PRIMARY"}

\* The table the calls address: 'actors', or { tableName: 'actors', schema: 'archive' }.
TableId(withSchema) == IF withSchema THEN "archive.actors" ELSE "actors"

\* The capability flag that guards each test case.
SupportsConstraintType(desc, type) ==
  Get(desc, <<"constraints",
              CASE type = "CHECK" -> "check"
                [] type = "DEFAULT" -> "default"
                [] type = "UNIQUE" -> "unique"
                [] type = "FOREIGN KEY" -> "foreignKey"
                [] type = "PRIMARY KEY" -> "foreignKey">>) = T

\* A database that keeps the name the caller gave to a primary key.
StoredName_verbatim(d, name, type) == name

\* The name under which the database lists a new constraint: MariaDB and
\* MySQL call every primary key PRIMARY.
StoredName(d, name, type) ==
  IF type = "PRIMARY KEY" /\ d \in {"mariadb", "mysql"} THEN "PRIMARY" ELSE name

\* A database that lets a primary key be dropped by a single statement.
RequiresReplacementPrimaryKey_never(d) == FALSE

\* CockroachDB does not allow dropping a primary key constraint without
\* subsequently creating a new one in the same transaction.
RequiresReplacementPrimaryKey(d) == d = "cockroachdb"

HasPrimaryKey(constraints) == \E c \in constraints : c.type = "PRIMARY KEY"

\* queryInterface.showConstraints(table, { constraintName })
showConstraints(constraints, constraintName) ==
  {c \in constraints : c.name = constraintName}

\* The constraints a statement sees and changes.
View == IF tx.active THEN tx.view ELSE committed

\* The database runs ALTER TABLE ... ADD CONSTRAINT.
AddAccepted(constraints, name, type) ==
  /\ showConstraints(constraints, StoredName(dialectName, name, type)) = {}
  /\ type = "PRIMARY KEY" => ~HasPrimaryKey(constraints)

\* The database runs ALTER TABLE ... DROP CONSTRAINT.
RemoveAccepted(constraints, name, inTransaction) ==
  /\ showConstraints(constraints, name) # {}
  /\ \A c \in showConstraints(constraints, name) :
       (c.type = "PRIMARY KEY" /\ RequiresReplacementPrimaryKey(dialectName))
         => inTransaction

Statement(kind, name) ==
  [kind |-> kind, table |-> TableId(schema), name |-> name, transaction |-> tx.active]

Apply(constraints) ==
  IF tx.active
    THEN /\ tx' = [tx EXCEPT !.view = constraints, !.log = Append(@, emitted'[1])]
         /\ UNCHANGED committed
    ELSE /\ committed' = constraints
         /\ UNCHANGED tx

InitDb ==
  /\ dialectName \in DbDialects
  /\ supports = DialectSupports(dialectName)
  /\ quoteIdentifiers = TRUE
  /\ lastQuery = NoQuery
  /\ lastRead = NoRead
  /\ schema \in BOOLEAN
  /\ committed = {}
  /\ tx = NoTransaction
  /\ emitted = <<>>
  /\ lastOp = NoOp
  /\ InitBindIdle /\ InitTypesIdle

\* queryInterface.addConstraint(table, { name, type, ..., transaction })
AddConstraint(name, type) ==
  /\ SupportsConstraintType(supports, type)
  /\ tx.active => Len(tx.log) < MaxTxLog
  /\ emitted' = <<Statement("ADD CONSTRAINT " \o type, name)>>
  /\ LET ok == AddAccepted(View, name, type) IN
       /\ lastOp' = [op |-> "addConstraint", name |-> name, type |-> type,
                     transaction |-> tx.active, ok |-> ok, added |-> "",
                     addedName |-> ""]
       /\ IF ok
            THEN Apply(View \cup {[name |-> StoredName(dialectName, name, type),
                                   type |-> type]})
            ELSE UNCHANGED <<committed, tx>>
  /\ UNCHANGED <<schema, dialectVars, bindVars, typeVars>>

\* The call being made directly follows an accepted addConstraint, both
\* outside a transaction.
FollowsPlainAdd ==
  lastOp.op = "addConstraint" /\ lastOp.ok /\ ~lastOp.transaction /\ ~tx.active

\* queryInterface.removeConstraint(table, constraintName, { transaction })
RemoveConstraint(name) ==
  /\ tx.active => Len(tx.log) < MaxTxLog
  /\ emitted' = <<Statement("DROP CONSTRAINT", name)>>
  /\ LET ok == RemoveAccepted(View, name, tx.active) IN
       /\ lastOp' = [op |-> "removeConstraint", name |-> name, type |-> "",
                     transaction |-> tx.active, ok |-> ok,
                     added |-> IF FollowsPlainAdd THEN lastOp.type ELSE "",
                     addedName |-> IF FollowsPlainAdd THEN lastOp.name ELSE ""]
       /\ IF ok
            THEN Apply(View \ showConstraints(View, name))
            ELSE UNCHANGED <<committed, tx>>
  /\ UNCHANGED <<schema, dialectVars, bindVars, typeVars>>

\* sequelize.startUnmanagedTransaction()
StartTransaction ==
  /\ ~tx.active
  /\ tx' = [active |-> TRUE, view |-> committed, log |-> <<>>]
  /\ emitted' = <<>>
  /\ lastOp' = [NoOp EXCEPT !.op = "startUnmanagedTransaction", !.ok = TRUE]
  /\ UNCHANGED <<committed, schema, dialectVars, bindVars, typeVars>>

\* t.commit(): the database refuses to commit a table whose primary key was
\* dropped and not replaced.
Commit ==
  /\ tx.active
  /\ LET ok == (RequiresReplacementPrimaryKey(dialectName) /\ HasPrimaryKey(committed))
                 => HasPrimaryKey(tx.view)
     IN /\ committed' = IF ok THEN tx.view ELSE committed
        /\ lastOp' = [NoOp EXCEPT !.op = "commit", !.ok = ok, !.transaction = TRUE]
  /\ tx' = NoTransaction
  /\ emitted' = <<>>
  /\ UNCHANGED <<schema, dialectVars, bindVars, typeVars>>

NextDb ==
  \/ \E name \in ConstraintNames, type \in ConstraintTypes : AddConstraint(name, type)
  \/ \E name \in ListedNames : RemoveConstraint(name)
  \/ StartTransaction
  \/ Commit

SpecDb == InitDb /\ [][NextDb]_vars

\* The last call was a plain (no transaction) addConstraint that the
\* database accepted.
AfterPlainAdd == lastOp.op = "addConstraint" /\ lastOp.ok /\ ~lastOp.transaction

\* The last call was a plain removeConstraint that directly followed an
\* accepted plain addConstraint of the constraint it names.
AfterPlainRemove ==
  /\ lastOp.op = "removeConstraint" /\ lastOp.added # "" /\ ~lastOp.transaction
  /\ lastOp.name = IF lastOp.added = "PRIMARY KEY" /\ dialectName \in {"mariadb", "mysql"}
                     THEN "PRIMARY" ELSE lastOp.addedName

\* C3 as stated: for every supported constraint type, with or without a
\* schema, after addConstraint(table, {name: n, type: t}) showConstraints
\* lists exactly one constraint, named n and of type t, and after a following
\* removeConstraint(table, n) it lists none.
C3_AsStated ==
  /\ AfterPlainAdd =>
       showConstraints(committed, lastOp.name)
         = {[name |-> lastOp.name, type |-> lastOp.type]}
  /\ (lastOp.op = "removeConstraint" /\ lastOp.added # "" /\ lastOp.name = lastOp.addedName) =>
       showConstraints(committed, lastOp.name) = {}

\* C3, amended: as stated for CHECK, DEFAULT, UNIQUE and FOREIGN KEY on every
\* dialect and for PRIMARY KEY on the other dialects; on MariaDB and MySQL a
\* primary key is listed, and removed, under the name PRIMARY; on CockroachDB
\* a primary key is listed under n and a plain removeConstraint leaves it
\* listed.
C3_AddThenRemove ==
  /\ AfterPlainAdd =>
       LET listed == IF lastOp.type = "PRIMARY KEY" /\ dialectName \in {"mariadb", "mysql"}
                       THEN "PRIMARY" ELSE lastOp.name
       IN showConstraints(committed, listed) = {[name |-> listed, type |-> lastOp.type]}
  /\ AfterPlainRemove =>
       IF lastOp.added = "PRIMARY KEY" /\ dialectName = "cockroachdb"
         THEN /\ ~lastOp.ok
              /\ showConstraints(committed, lastOp.name)
                   = {[name |-> lastOp.name, type |-> "PRIMARY KEY"]}
         ELSE lastOp.ok /\ showConstraints(committed, lastOp.name) = {}

C3_Witness ==
  /\ AfterPlainRemove
  /\ schema
  /\ dialectName = "postgres"
  /\ lastOp.added = "FOREIGN KEY"
  /\ lastOp.name = "custom_constraint_name"
  /\ committed = {}

\* A step that takes a primary key constraint out of the committed state.
PrimaryKeyDropped(c) ==
  c \in committed /\ c.type = "PRIMARY KEY" /\ c \notin committed'

\* The transaction's statements drop constraint name and add a primary key
\* later on.
ReplacedInTransaction(name) ==
  \E i, j \in 1..Len(tx.log) :
    /\ i < j
    /\ tx.log[i].kind = "DROP CONSTRAINT" /\ tx.log[i].name = name
    /\ tx.log[j].kind = "ADD CONSTRAINT PRIMARY KEY"
    /\ \A k \in 1..Len(tx.log) : tx.log[k].transaction

C4_Step ==
  dialectName = "cockroachdb" =>
    /\ \A c \in committed :
         PrimaryKeyDropped(c) =>
           /\ tx.active /\ ~tx'.active
           /\ lastOp'.op = "commit" /\ lastOp'.ok
           /\ ReplacedInTransaction(c.name)
           /\ HasPrimaryKey(committed')
           /\ showConstraints(committed', c.name) # {} =>
                \E j \in 1..Len(tx.log) :
                  tx.log[j].kind # "DROP CONSTRAINT" /\ tx.log[j].name = c.name
    /\ HasPrimaryKey(committed) => HasPrimaryKey(committed')
    /\ (lastOp'.op = "removeConstraint" /\ emitted' # <<>> /\ <<lastOp, emitted, tx>> # <<lastOp', emitted', tx'>>) =>
         /\ emitted' = <<[kind |-> "DROP CONSTRAINT", table |-> TableId(schema),
                          name |-> lastOp'.name, transaction |-> tx.active]>>
         /\ tx'.active = tx.active
         /\ ~tx.active => tx' = tx
         /\ tx.active => committed' = committed

MaxArrayLen == 2
MaxWarnings == 1

IntegerKinds == {"TINYINT", "SMALLINT", "MEDIUMINT", "INTEGER", "BIGINT"}
LengthKinds == IntegerKinds \cup {"TEXT", "BLOB"}
ElementTypes == {"INTEGER", "TEXT", "ARRAY(INTEGER)"}

\* Element types given as data type instances, and as a raw type name.
ElementClasses == {"STRING", "TEXT", "INTEGER", "BIGINT", "DATE"}
RawElementTypes == {"citext"}

\* isString(type): the element type was given as a raw type name
isString(type) == type \in RawElementTypes

\* value == null, value != null
IsNullish(v) == v.t \in {"absent", "undefined", "null"}

\* if (value): the truthiness of a JavaScript value
IsTruthy(v) ==
  /\ ~IsNullish(v)
  /\ v.t = "number" => (v.s # "finite" \/ v.n # 0)
  /\ v.t = "string" => v.s # ""

\* Array.isArray(value)
IsArray(v) == v.t = "array"

Max(S) == CHOOSE m \in S : \A x \in S : x <= m

\* A getArrayDepth that does not look into the elements.
getArrayDepth_flat(value) == IF IsArray(value) THEN 1 ELSE 0

\* getArrayDepth(value)
RECURSIVE getArrayDepth(_)
getArrayDepth(value) ==
  IF IsArray(value)
    THEN 1 + Max({0} \cup {getArrayDepth(value.e[i]) : i \in 1..Len(value.e)})
    ELSE 0

Ok(superCalls) == [threw |-> FALSE, error |-> "", message |-> "", value |-> JsUndefined,
                   superCalls |-> superCalls]
Result(value) == [threw |-> FALSE, error |-> "", message |-> "", value |-> value,
                  superCalls |-> 0]
\* ValidationErrorItem.throwDataTypeValidationError(message)
ValidationError(message) == [threw |-> TRUE, error |-> "ValidationError",
                             message |-> message, value |-> JsUndefined,
                             superCalls |-> 0]
\* The outcome of a call that ends with super.method(...).
ViaSuper(outcome) == [outcome EXCEPT !.superCalls = @ + 1]

\* BaseTypes.DATE.validate(value)
BaseDATE_validate(self, value) ==
  IF value.t \in {"Date", "string"} \/ (value.t = "number" /\ value.s = "finite")
    THEN Ok(0)
    ELSE ValidationError("not a valid date")

\* A DATE.validate that lets the infinities pass, as on an engine with
\* infinity sentinels.
DATE_validate_accepting(self, value) ==
  IF value = JsInfinity \/ value = JsNegInfinity
    THEN Ok(0)
    ELSE ViaSuper(BaseDATE_validate(self, value))
\* DATE.validate(value)
DATE_validate(self, value) ==
  IF value = JsInfinity \/ value = JsNegInfinity
    THEN ValidationError("CockroachDB does not support negative and positive infitnity values in date")
    ELSE ViaSuper(BaseDATE_validate(self, value))

\* <element type>.validate(value): the dialect's class of the element type;
\* an element type given as a raw type name is not validated.
BaseElement_validate(elementType, value) ==
  CASE elementType \in {"INTEGER", "BIGINT"} ->
         IF value.t = "number" /\ value.s = "finite" THEN Ok(0)
         ELSE ValidationError("not a valid integer")
    [] elementType \in {"TEXT", "STRING"} ->
         IF value.t = "string" THEN Ok(0) ELSE ValidationError("not a valid string")
    [] elementType = "DATE" -> DATE_validate([NoType EXCEPT !.kind = "DATE"], value)
    [] elementType \in RawElementTypes -> Ok(0)
    [] OTHER ->
         IF IsArray(value)
              /\ \A i \in 1..Len(value.e) : value.e[i].t = "number" /\ value.e[i].s = "finite"
           THEN Ok(0) ELSE ValidationError("not a valid array")

\* BaseTypes.ARRAY.validate(value): an array whose items the element type
\* accepts.
BaseARRAY_validate(self, value) ==
  IF ~IsArray(value) THEN ValidationError("not a valid array")
  ELSE IF \E i \in 1..Len(value.e) : BaseElement_validate(self.type, value.e[i]).threw
    THEN BaseElement_validate(self.type,
           value.e[CHOOSE i \in 1..Len(value.e) :
                     /\ BaseElement_validate(self.type, value.e[i]).threw
                     /\ \A j \in 1..(i - 1) : ~BaseElement_validate(self.type, value.e[j]).threw])
  ELSE Ok(0)

\* ARRAY.validate(value)
ARRAY_validate(self, value) ==
  IF IsArray(value)
    THEN IF getArrayDepth(value) > 1
           THEN ValidationError("CockroachDB does not support nested arrays.")
           ELSE ViaSuper(BaseARRAY_validate(self, value))
    ELSE ViaSuper(BaseARRAY_validate(self, value))

\* BaseTypes.DATE.toBindableValue(value): the date in the session format
BaseDATE_toBindableValue(self, value) ==
  Result(JsStr("YYYY-MM-DD HH:mm:ss.SSS Z"))

\* DATE.toBindableValue(value)
DATE_toBindableValue(self, value) ==
  IF value = JsInfinity THEN Result(JsStr("294276-12-31 23:59:59.999999+00:00"))
  ELSE IF value = JsNegInfinity THEN Result(JsStr("-4713-11-24 00:00:00+00:00"))
  ELSE ViaSuper(BaseDATE_toBindableValue(self, value))

\* The outcome of _checkOptionSupport: the type as it leaves it, the
\* advisories passed to dialect.warnDataTypeIssue, whether it threw.
Checked(self, advisories) == [type |-> self, advisories |-> advisories, threw |-> FALSE]

\* BaseTypes.<kind>._checkOptionSupport(dialect)
Base_checkOptionSupport(self, dialect) == Checked(self, <<>>)

\* A removeUnsupportedIntegerOptions that tests the length for truthiness.
removeUnsupportedIntegerOptions_truthy(checked, dialect) ==
  IF IsTruthy(checked.type.length)
    THEN [checked EXCEPT
            !.advisories = Append(@, dialect \o " does not support " \o checked.type.kind
                                     \o " with length specified. This options is ignored."),
            !.type.length = JsAbsent]
    ELSE checked

\* removeUnsupportedIntegerOptions(dataType, dialect)
removeUnsupportedIntegerOptions(checked, dialect) ==
  IF ~IsNullish(checked.type.length)
    THEN [checked EXCEPT
            !.advisories = Append(@, dialect \o " does not support " \o checked.type.kind
                                     \o " with length specified. This options is ignored."),
            !.type.length = JsAbsent]
    ELSE checked

\* TINYINT / INTEGER / SMALLINT / MEDIUMINT / BIGINT ._checkOptionSupport(dialect)
Integer_checkOptionSupport(self, dialect) ==
  removeUnsupportedIntegerOptions(Base_checkOptionSupport(self, dialect), dialect)

\* TEXT._checkOptionSupport(dialect)
TEXT_checkOptionSupport(self, dialect) ==
  LET checked == Base_checkOptionSupport(self, dialect) IN
    IF IsTruthy(checked.type.length)
      THEN [checked EXCEPT
              !.advisories = Append(@, dialect \o " does not support TEXT with options. Plain TEXT will be used instead."),
              !.type.length = JsUndefined]
      ELSE checked

\* BLOB._checkOptionSupport(dialect)
BLOB_checkOptionSupport(self, dialect) ==
  LET checked == Base_checkOptionSupport(self, dialect) IN
    IF IsTruthy(checked.type.length)
      THEN [checked EXCEPT
              !.advisories = Append(@, dialect \o " does not support BLOB (BYTES) with options. Plain BYTES will be used instead."),
              !.type.length = JsUndefined]
      ELSE checked

\* dataType._checkOptionSupport(dialect) by class
checkOptionSupport(self, dialect) ==
  CASE self.kind \in IntegerKinds -> Integer_checkOptionSupport(self, dialect)
    [] self.kind = "TEXT" -> TEXT_checkOptionSupport(self, dialect)
    [] self.kind = "BLOB" -> BLOB_checkOptionSupport(self, dialect)
    [] OTHER -> Base_checkOptionSupport(self, dialect)

\* The (length) suffix of a type rendered with its length option.
LengthSuffix(length) ==
  IF IsNullish(length) THEN ""
  ELSE IF length.t = "number" THEN "(" \o ToString(length.n) \o ")"
  ELSE "(" \o length.s \o ")"

\* BaseTypes.BIGINT.toSql(), BaseTypes.TEXT.toSql(), BaseTypes.STRING.toSql()
Base_toSql(self) ==
  CASE self.kind = "TEXT" ->
         CASE self.length = JsStr("tiny") -> "TINYTEXT"
           [] self.length = JsStr("medium") -> "MEDIUMTEXT"
           [] self.length = JsStr("long") -> "LONGTEXT"
           [] OTHER -> "TEXT"
    [] self.kind = "STRING" ->
         "VARCHAR" \o (IF IsNullish(self.length) THEN "(255)" ELSE LengthSuffix(self.length))
    [] OTHER -> self.kind \o LengthSuffix(self.length)

\* A toSql() that renders an unsigned type like the signed one.
toSql_unpromoted(self) ==
  CASE self.kind \in {"TINYINT", "SMALLINT"} -> "SMALLINT"
    [] self.kind \in {"MEDIUMINT", "INTEGER"} -> "INTEGER"
    [] self.kind = "BLOB" -> "BYTES"
    [] self.kind = "DATE" -> "TIMESTAMP WITH TIME ZONE"
    [] OTHER -> Base_toSql(self)

\* <kind>.toSql()
toSql(self) ==
  CASE self.kind = "TINYINT" -> "SMALLINT"
    [] self.kind = "INTEGER" -> IF self.unsigned THEN "BIGINT" ELSE "INTEGER"
    [] self.kind = "SMALLINT" -> IF self.unsigned THEN "INTEGER" ELSE "SMALLINT"
    [] self.kind = "MEDIUMINT" -> "INTEGER"
    [] self.kind = "BLOB" -> "BYTES"
    [] self.kind = "DATE" ->
         IF ~IsNullish(self.precision)
           THEN "TIMESTAMP(" \o ToString(self.precision.n) \o ") WITH TIME ZONE"
           ELSE "TIMESTAMP WITH TIME ZONE"
    [] OTHER -> Base_toSql(self)

\* Array.prototype.join(separator) over rendered items
RECURSIVE join(_, _)
join(items, separator) ==
  IF items = <<>> THEN ""
  ELSE IF Len(items) = 1 THEN items[1]
  ELSE items[1] \o separator \o join(Tail(items), separator)

\* Integers beyond 32 bits are written by their decimal digits, most
\* significant first, with the sign in n: a number (a double holding that
\* integer exactly) or a bigint.
JsExact(sign, digits) == JsValue("number", sign, "exact", digits)
JsBigInt(sign, digits) == JsValue("bigint", sign, "exact", digits)

\* Number.MAX_SAFE_INTEGER = 2^53 - 1 = 9007199254740991
MAX_SAFE_INTEGER == <<9, 0, 0, 7, 1, 9, 9, 2, 5, 4, 7, 4, 0, 9, 9, 1>>

\* The digits as text.
DigitsText(digits) == join([i \in 1..Len(digits) |-> ToString(digits[i])], "")

RECURSIVE StripTrailingZeros(_)
StripTrailingZeros(digits) ==
  IF Len(digits) > 1 /\ digits[Len(digits)] = 0
    THEN StripTrailingZeros(SubSeq(digits, 1, Len(digits) - 1))
    ELSE digits

\* The characters of the decimal notation of an Int.
RECURSIVE IntChars(_)
IntChars(n) ==
  IF n < 0 THEN <<"-">> \o IntChars(-n)
  ELSE IF n < 10 THEN <<ToString(n)>>
  ELSE IntChars(n \div 10) \o <<ToString(n % 10)>>

\* The characters of Number.prototype.toString of an integer-valued double:
\* plain digits below 1e21, exponent notation from 1e21 on.
NumberChars(sign, digits) ==
  (IF sign < 0 THEN <<"-">> ELSE <<>>)
    \o (IF Len(digits) < 22 THEN [i \in 1..Len(digits) |-> ToString(digits[i])]
        ELSE LET m == StripTrailingZeros(digits) IN
               <<ToString(m[1])>>
                 \o (IF Len(m) > 1
                       THEN <<".">> \o [i \in 1..(Len(m) - 1) |-> ToString(m[i + 1])]
                       ELSE <<>>)
                 \o <<"e", "+">> \o IntChars(Len(digits) - 1))

\* Number.prototype.toString of an integer-valued double
NumberToString(sign, digits) == join(NumberChars(sign, digits), "")

\* String(value)
String(v) ==
  CASE v.t = "number" /\ v.s = "exact" -> NumberToString(v.n, v.e)
    [] v.t = "bigint" -> (IF v.n < 0 THEN "-" ELSE "") \o DigitsText(v.e)
    [] v.t = "number" -> (IF v.s = "finite" THEN ToString(v.n) ELSE v.s)
    [] v.t \in {"string", "Date"} -> v.s
    [] v.t = "null" -> "null"
    [] v.t = "array" -> "<array>"
    [] OTHER -> "undefined"

\* a > b for two digit sequences without leading zeros
GreaterDigits(a, b) ==
  \/ Len(a) > Len(b)
  \/ /\ Len(a) = Len(b)
     /\ \E i \in 1..Len(a) : a[i] > b[i] /\ \A j \in 1..(i - 1) : a[j] = b[j]

\* value > Number.MAX_SAFE_INTEGER
GreaterThanMaxSafeInteger(value) ==
  /\ value.t \in {"number", "bigint"}
  /\ \/ value = JsInfinity
     \/ value.s = "exact" /\ value.n > 0 /\ GreaterDigits(value.e, MAX_SAFE_INTEGER)

\* INTEGER.sanitize(value)
INTEGER_sanitize(self, value) ==
  IF GreaterThanMaxSafeInteger(value)
    THEN Result(JsStr(String(value)))
    ELSE Result(value)

\* BaseTypes.DATE.sanitize(value): a Date as it is, a string or a number as
\* the Date it denotes, a TypeError for anything else
BaseDATE_sanitize(self, value) ==
  IF value.t = "Date" THEN Result(value)
  ELSE IF value.t \in {"string", "number"} THEN Result(JsDate("Date(" \o String(value) \o ")"))
  ELSE [threw |-> TRUE, error |-> "TypeError",
        message |-> "cannot be converted to a Date object",
        value |-> JsUndefined, superCalls |-> 0]

\* A DATE.sanitize that hands every value to the base class.
DATE_sanitize_delegating(self, value) == ViaSuper(BaseDATE_sanitize(self, value))

\* DATE.sanitize(value)
DATE_sanitize(self, value) ==
  IF IsNullish(value) THEN Result(value)
  ELSE IF value.t = "Date" THEN Result(value)
  ELSE ViaSuper(BaseDATE_sanitize(self, value))

\* A string together with its characters.
JsText(chars) == JsValue("string", 0, join(chars, ""), chars)

\* The characters of String(value); a word no character of which is a digit
\* or a sign (NaN, Infinity, null, undefined) counts as one character.
Characters(v) ==
  CASE v.t = "string" -> v.e
    [] v.t = "number" /\ v.s = "finite" -> IntChars(v.n)
    [] v.t = "number" /\ v.s = "exact" -> NumberChars(v.n, v.e)
    [] v.t = "bigint" ->
         (IF v.n < 0 THEN <<"-">> ELSE <<>>) \o [i \in 1..Len(v.e) |-> ToString(v.e[i])]
    [] OTHER -> <<String(v)>>

\* /^[-+]?[0-9]+$/.test(rep)
IsIntegerText(chars) ==
  LET digits == IF chars # <<>> /\ chars[1] \in {"-", "+"} THEN Tail(chars) ELSE chars
  IN /\ digits # <<>>
     /\ \A i \in 1..Len(digits) :
          digits[i] \in {"0", "1", "2", "3", "4", "5", "6", "7", "8", "9"}

\* format('%j', value): JSON.stringify(value)
Json(v) ==
  CASE v.t = "string" -> "\"" \o v.s \o "\""
    [] v.t = "number" /\ v.s \notin {"finite", "exact"} -> "null"
    [] OTHER -> String(v)

\* A BIGINT.$stringify that returns String(value) untested.
BIGINT_stringify_untested(self, value) == Result(JsStr(String(value)))

\* BIGINT.$stringify(value)
BIGINT_stringify(self, value) ==
  LET rep == String(value) IN
    IF ~IsIntegerText(Characters(value))
      THEN ValidationError(Json(value) \o " is not a valid integer")
      ELSE Result(JsStr(rep))

\* queryGenerator.pgEnumName(tableName, columnName): the quoted name of the
\* enum type the engine holds for the column
pgEnumName(tableName, columnName) ==
  quoteIdentifier(dialectName, quoteIdentifiers, "enum_" \o tableName \o "_" \o columnName)

\* A plain Error, not a data validation error.
Failure(message) == [threw |-> TRUE, error |-> "Error", message |-> message,
                     value |-> JsUndefined,
                     superCalls |-> 0]

\* An ENUM.toSql() that lists the members, as the base ENUM does.
ENUM_toSql_members(self, context) ==
  Result(JsStr("ENUM(" \o join([i \in 1..Len(self.values) |-> "'" \o self.values[i] \o "'"],
                               ", ") \o ")"))

\* ENUM.toSql()
ENUM_toSql(self, context) ==
  IF context = NoContext
    THEN Failure("Could not determine the name of this enum because it is not attached to an attribute or a column.")
    ELSE LET tableName == context.tableName
             columnName == IF context.kind = "model"
                             THEN (IF context.field # None THEN context.field
                                   ELSE context.attributeName)
                             ELSE context.columnName
         IN IF dialectName # "cockroachdb"
              THEN Failure("expected queryGenerator to be PostgresQueryGenerator")
              ELSE Result(JsStr(pgEnumName(tableName, columnName)))

\* The length options a caller may pass to each kind.
LengthOptions(kind) ==
  IF kind \in IntegerKinds THEN {JsAbsent, JsNum(0), JsNum(11)}
  ELSE IF kind \in {"TEXT", "BLOB"} THEN {JsAbsent, JsStr("tiny"), JsStr("long")}
  ELSE {JsAbsent}

Scalars == {JsNum(1), JsStr("a")}

\* Arrays of at most n elements drawn from S.
ArraysOver(S, n) == {JsArr(e) : e \in UNION {[1..k -> S] : k \in 0..n}}

FlatArrays == ArraysOver(Scalars, MaxArrayLen)
NestedArrays ==
  ArraysOver(Scalars \cup {JsArr(<<>>), JsArr(<<JsNum(1)>>), JsArr(<<JsArr(<<>>)>>)},
             MaxArrayLen) \ FlatArrays

ArrayInputs == FlatArrays \cup NestedArrays \cup Scalars \cup {JsNull, JsUndefined}
DateInputs ==
  {JsInfinity, JsNegInfinity, JsNum(1), JsDate("2023-01-01T00:00:00.000Z"),
   JsStr("2023-01-01"), JsNull, JsUndefined, JsArr(<<>>)}

\* 10^k
PowerOfTen(k) == <<1>> \o [i \in 1..k |-> 0]

\* Integers around the safe-integer bounds: doubles (even above 2^53), and
\* bigints.
IntegerInputs ==
  {JsNum(0), JsNum(7), JsNum(-7), JsNull}
    \cup {JsExact(sign, SubSeq(MAX_SAFE_INTEGER, 1, 15) \o <<d>>) :
            sign \in {1, -1}, d \in {0, 1, 2, 4}}
    \cup {JsExact(sign, PowerOfTen(k)) : sign \in {1, -1}, k \in {16, 21}}
    \cup {JsBigInt(sign, SubSeq(MAX_SAFE_INTEGER, 1, 15) \o <<d>>) :
            sign \in {1, -1}, d \in {1, 2, 3}}

InitTypes ==
  /\ dataType = NoType
  /\ warnings = <<>>
  /\ lastCall = NoCall
  /\ usageContext = NoContext
  /\ run = NoRun
  /\ InitDialectIdle /\ InitBindIdle /\ InitDbIdle

\* new DataTypes.<kind>(options), normalised for the dialect: the
\* constructor's options pass through _checkOptionSupport.
Construct(kind, length, unsigned, precision, elementType) ==
  /\ Len(warnings) < MaxWarnings
  /\ LET given == [kind |-> kind, length |-> length, unsigned |-> unsigned,
                   precision |-> precision, type |-> elementType, values |-> <<>>]
         checked == checkOptionSupport(given, dialectName)
     IN /\ dataType' = checked.type
        /\ warnings' = warnings \o checked.advisories
        /\ lastCall' = [NoCall EXCEPT !.op = "construct", !.given = given,
                                      !.advisories = checked.advisories,
                                      !.outcome.threw = checked.threw]
  /\ UNCHANGED <<usageContext, run, dialectVars, bindVars, dbVars>>

\* dataType.validate(value)
Validate(value) ==
  /\ dataType.kind \in {"ARRAY", "DATE"}
  /\ value \in (IF dataType.kind = "ARRAY" THEN ArrayInputs ELSE DateInputs)
  /\ lastCall' = [NoCall EXCEPT !.op = "validate", !.arg = value,
                                !.outcome = IF dataType.kind = "ARRAY"
                                              THEN ARRAY_validate(dataType, value)
                                              ELSE DATE_validate(dataType, value)]
  /\ UNCHANGED <<dataType, warnings, usageContext, run, dialectVars, bindVars, dbVars>>

\* dataType.toBindableValue(value)
ToBindableValue(value) ==
  /\ dataType.kind = "DATE"
  /\ lastCall' = [NoCall EXCEPT !.op = "toBindableValue", !.arg = value,
                                !.outcome = DATE_toBindableValue(dataType, value)]
  /\ UNCHANGED <<dataType, warnings, usageContext, run, dialectVars, bindVars, dbVars>>

\* dataType.sanitize(value)
Sanitize(value) ==
  /\ dataType.kind \in {"INTEGER", "DATE"}
  /\ value \in (IF dataType.kind = "INTEGER" THEN IntegerInputs ELSE DateInputs)
  /\ lastCall' = [NoCall EXCEPT !.op = "sanitize", !.arg = value,
                                !.outcome = IF dataType.kind = "INTEGER"
                                              THEN INTEGER_sanitize(dataType, value)
                                              ELSE DATE_sanitize(dataType, value)]
  /\ UNCHANGED <<dataType, warnings, usageContext, run, dialectVars, bindVars, dbVars>>

\* dataType.toSql()
ToSql ==
  /\ dataType.kind \in LengthKinds \cup {"DATE", "ENUM"}
  /\ lastCall' = [NoCall EXCEPT !.op = "toSql",
                                !.outcome = IF dataType.kind = "ENUM"
                                              THEN ENUM_toSql(dataType, usageContext)
                                              ELSE Result(JsStr(toSql(dataType)))]
  /\ UNCHANGED <<dataType, warnings, usageContext, run, dialectVars, bindVars, dbVars>>

NextTypes ==
  \/ \E kind \in LengthKinds, length \in UNION {LengthOptions(k) : k \in LengthKinds},
        unsigned \in BOOLEAN :
       /\ length \in LengthOptions(kind)
       /\ unsigned => kind \in {"TINYINT", "SMALLINT", "MEDIUMINT", "INTEGER"}
       /\ Construct(kind, length, unsigned, JsAbsent, "none")
  \/ \E elementType \in ElementTypes :
       Construct("ARRAY", JsAbsent, FALSE, JsAbsent, elementType)
  \/ \E precision \in {JsAbsent, JsNum(3)} :
       Construct("DATE", JsAbsent, FALSE, precision, "none")
  \/ \E value \in ArrayInputs \cup DateInputs : Validate(value)
  \/ \E value \in DateInputs : ToBindableValue(value)
  \/ \E value \in IntegerInputs \cup DateInputs : Sanitize(value)
  \/ ToSql

SpecTypes == InitTypes /\ [][NextTypes]_vars

\* Some element of the array is itself an array.
HasArrayElement(v) == IsArray(v) /\ \E i \in 1..Len(v.e) : IsArray(v.e[i])

\* C5: ARRAY.validate raises 'CockroachDB does not support nested arrays.'
\* for every array one of whose elements is an array (an empty inner array
\* included), without calling the base validation; for every flat array (the
\* empty array included) and every non-array value its outcome is the outcome
\* of the base ARRAY validation.
C5_NestedArraysRejected ==
  (lastCall.op = "validate" /\ dataType.kind = "ARRAY") =>
    IF HasArrayElement(lastCall.arg)
      THEN /\ lastCall.outcome.threw
           /\ lastCall.outcome.message = "CockroachDB does not support nested arrays."
           /\ lastCall.outcome.superCalls = 0
      ELSE /\ lastCall.outcome.superCalls = 1
           /\ lastCall.outcome.threw = BaseARRAY_validate(dataType, lastCall.arg).threw
           /\ lastCall.outcome.message = BaseARRAY_validate(dataType, lastCall.arg).message

C5_Witness ==
  /\ lastCall.op = "validate"
  /\ dataType.kind = "ARRAY" /\ dataType.type = "ARRAY(INTEGER)"
  /\ lastCall.arg = JsArr(<<JsArr(<<>>)>>)
  /\ ~BaseARRAY_validate(dataType, lastCall.arg).threw
  /\ lastCall.outcome.threw

DeclaresDateInfinity == Get(supports, <<"dataTypes", "DATETIME", "infinity">>) = T

\* C6: on a dialect whose descriptor declares infinity support for the
\* date-time type, a date of positive infinity passes validation and renders
\* as '294276-12-31 23:59:59.999999+00:00', negative infinity as
\* '-4713-11-24 00:00:00+00:00'; only a dialect that does not declare the
\* support raises a data validation error for them.
C6_InfinityDates ==
  (dataType.kind = "DATE" /\ lastCall.arg \in {JsInfinity, JsNegInfinity}) =>
    /\ lastCall.op = "validate" => (lastCall.outcome.threw <=> ~DeclaresDateInfinity)
    /\ lastCall.op = "toBindableValue" =>
         lastCall.outcome.value =
           IF lastCall.arg = JsInfinity
             THEN JsStr("294276-12-31 23:59:59.999999+00:00")
             ELSE JsStr("-4713-11-24 00:00:00+00:00")

WithoutLength(self) == [self EXCEPT !.length = JsAbsent]

\* C9: for TINYINT, SMALLINT, MEDIUMINT, INTEGER, BIGINT, TEXT and BLOB
\* constructed with a length option, the option-support check does not
\* throw, records exactly one advisory, leaves the type with no length
\* option, and toSql() gives what the type constructed without a length
\* gives; without a length no advisory is recorded.
C9_LengthDropped ==
  /\ (lastCall.op = "construct" /\ lastCall.given.kind \in LengthKinds) =>
       IF lastCall.given.length # JsAbsent
         THEN /\ ~lastCall.outcome.threw
              /\ Len(lastCall.advisories) = 1
              /\ IsNullish(dataType.length)
              /\ toSql(dataType) = toSql(WithoutLength(lastCall.given))
              /\ toSql(dataType)
                   = toSql(checkOptionSupport(WithoutLength(lastCall.given), dialectName).type)
         ELSE lastCall.advisories = <<>> /\ dataType = lastCall.given
  /\ (lastCall.op = "toSql" /\ dataType.kind \in LengthKinds) =>
       lastCall.outcome.value = JsStr(toSql(WithoutLength(dataType)))

C9_Witness ==
  /\ lastCall.op = "construct"
  /\ lastCall.given.kind = "BIGINT"
  /\ lastCall.given.length = JsNum(0)
  /\ Len(lastCall.advisories) = 1
  /\ dataType.length = JsAbsent
  /\ toSql(dataType) = "BIGINT"

\* Bits a signed native type must have to hold every value of the logical
\* type: its own width, and one more when it is unsigned.
RequiredBits(self) ==
  (CASE self.kind = "TINYINT" -> 8
     [] self.kind = "SMALLINT" -> 16
     [] self.kind = "MEDIUMINT" -> 24
     [] self.kind = "INTEGER" -> 32)
   + (IF self.unsigned THEN 1 ELSE 0)

\* Width in bits of the native signed integer types.
NativeBits(name) ==
  CASE name = "SMALLINT" -> 16
    [] name = "INTEGER" -> 32
    [] name = "BIGINT" -> 64
    [] OTHER -> 0

\* C13: TINYINT, SMALLINT, MEDIUMINT and INTEGER render to the narrowest
\* native signed type (SMALLINT, INTEGER, BIGINT) that holds every value of
\* the logical type, an unsigned type needing one bit more than the signed
\* one: TINYINT -> SMALLINT, MEDIUMINT -> INTEGER, SMALLINT -> SMALLINT or,
\* unsigned, INTEGER, INTEGER -> INTEGER or, unsigned, BIGINT. The rendering
\* depends on the kind and the unsigned flag alone.
C13_NativeSignedWidth ==
  (lastCall.op = "toSql" /\ dataType.kind \in {"TINYINT", "SMALLINT", "MEDIUMINT", "INTEGER"}) =>
    LET rendered == lastCall.outcome.value.s IN
      /\ ~lastCall.outcome.threw
      /\ rendered \in {"SMALLINT", "INTEGER", "BIGINT"}
      /\ NativeBits(rendered) >= RequiredBits(dataType)
      /\ \A other \in {"SMALLINT", "INTEGER", "BIGINT"} :
           NativeBits(other) >= RequiredBits(dataType) => NativeBits(other) >= NativeBits(rendered)
      /\ rendered = (CASE dataType.kind = "TINYINT" -> "SMALLINT"
                       [] dataType.kind = "MEDIUMINT" -> "INTEGER"
                       [] dataType.kind = "SMALLINT" ->
                            (IF dataType.unsigned THEN "INTEGER" ELSE "SMALLINT")
                       [] dataType.kind = "INTEGER" ->
                            (IF dataType.unsigned THEN "BIGINT" ELSE "INTEGER"))
      /\ \A length \in LengthOptions(dataType.kind) :
           toSql([NoType EXCEPT !.kind = dataType.kind, !.unsigned = dataType.unsigned,
                                !.length = length]) = rendered

C13_Witness ==
  /\ lastCall.op = "toSql"
  /\ dataType.kind = "INTEGER" /\ dataType.unsigned
  /\ lastCall.outcome.value = JsStr("BIGINT")

\* The integer lies outside [-MAX_SAFE_INTEGER, MAX_SAFE_INTEGER].
OutsideSafeRange(v) == v.s = "exact" /\ GreaterDigits(v.e, MAX_SAFE_INTEGER)

\* The exact decimal string of an integer.
DecimalString(v) ==
  IF v.s = "exact" THEN (IF v.n < 0 THEN "-" ELSE "") \o DigitsText(v.e)
  ELSE ToString(v.n)

\* C14: INTEGER.sanitize(v) returns the exact decimal string of v for every
\* integer v above MAX_SAFE_INTEGER and for every integer v below
\* -MAX_SAFE_INTEGER, and returns v unchanged for every v inside the safe
\* range.
C14_SafeIntegerRange ==
  (lastCall.op = "sanitize" /\ dataType.kind = "INTEGER"
     /\ lastCall.arg.t \in {"number", "bigint"}) =>
    IF OutsideSafeRange(lastCall.arg)
      THEN lastCall.outcome.value = JsStr(DecimalString(lastCall.arg))
      ELSE lastCall.outcome.value = lastCall.arg

\* C16: DATE.validate raises a data validation error for positive and for
\* negative infinity, whatever the precision of the type, without calling
\* the base validation; for every other value its outcome is that of the
\* base DATE validation. DATE.sanitize returns null, undefined and Date
\* instances unchanged and gives every other value to the base sanitize.
C16_DateValidateSanitize ==
  /\ (lastCall.op = "validate" /\ dataType.kind = "DATE") =>
       IF lastCall.arg \in {JsInfinity, JsNegInfinity}
         THEN /\ lastCall.outcome.threw
              /\ lastCall.outcome.error = "ValidationError"
              /\ lastCall.outcome.superCalls = 0
              /\ \A precision \in {JsAbsent, JsNum(0), JsNum(3)} :
                   DATE_validate([dataType EXCEPT !.precision = precision], lastCall.arg)
                     = lastCall.outcome
         ELSE /\ lastCall.outcome.superCalls = 1
              /\ lastCall.outcome.threw = BaseDATE_validate(dataType, lastCall.arg).threw
              /\ lastCall.outcome.message = BaseDATE_validate(dataType, lastCall.arg).message
  /\ (lastCall.op = "sanitize" /\ dataType.kind = "DATE") =>
       IF lastCall.arg \in {JsNull, JsUndefined} \/ lastCall.arg.t = "Date"
         THEN /\ ~lastCall.outcome.threw
              /\ lastCall.outcome.value = lastCall.arg
              /\ lastCall.outcome.superCalls = 0
         ELSE /\ lastCall.outcome.superCalls = 1
              /\ lastCall.outcome.threw = BaseDATE_sanitize(dataType, lastCall.arg).threw
              /\ lastCall.outcome.value = BaseDATE_sanitize(dataType, lastCall.arg).value

C16_Witness ==
  /\ lastCall.op = "sanitize"
  /\ dataType.kind = "DATE" /\ dataType.precision = JsNum(3)
  /\ lastCall.arg = JsNull
  /\ lastCall.outcome.value = JsNull
  /\ lastCall.outcome.superCalls = 0

(***************************************************************************)
(* Component: rendering of array literals and enum type names.             *)
(***************************************************************************)
\* type.escape(value) of an element type: numbers as digits, text quoted.
Element_escape(type, value) ==
  IF value.t = "number" THEN String(value)
  ELSE IF value.t \in {"string", "Date"} THEN "'" \o value.s \o "'"
  ELSE "NULL"

\* attributeTypeToSql(type): a raw type name as it is, a data type by toSql()
attributeTypeToSql(type) ==
  IF isString(type) THEN type ELSE toSql([NoType EXCEPT !.kind = type])

\* type instanceof BaseTypes.STRING || ... TEXT || ... INTEGER
unambiguousType(type) == type \in {"STRING", "TEXT", "INTEGER"}

\* An ARRAY.escape whose cast depends on the element type alone.
ARRAY_escape_byTypeAlone(self, values) ==
  LET type == self.type
      mappedValues == [i \in 1..Len(values.e) |->
                         IF isString(type) THEN String(values.e[i])
                         ELSE Element_escape(type, values.e[i])]
      cast == IF ~unambiguousType(type)
                THEN "::" \o attributeTypeToSql(type) \o "[]" ELSE ""
  IN "ARRAY[" \o join(mappedValues, ",") \o "]" \o cast

\* ARRAY.escape(values)
ARRAY_escape(self, values) ==
  LET type == self.type
      mappedValues == [i \in 1..Len(values.e) |->
                         IF isString(type) THEN String(values.e[i])
                         ELSE Element_escape(type, values.e[i])]
      cast == IF Len(mappedValues) = 0 \/ ~unambiguousType(type)
                THEN "::" \o attributeTypeToSql(type) \o "[]" ELSE ""
  IN "ARRAY[" \o join(mappedValues, ",") \o "]" \o cast

\* dataType.escape(values) on an ARRAY
Escape(values) ==
  /\ dataType.kind = "ARRAY"
  /\ lastCall' = [NoCall EXCEPT !.op = "escape", !.arg = values,
                                !.outcome = Result(JsStr(ARRAY_escape(dataType, values)))]
  /\ UNCHANGED <<dataType, warnings, usageContext, run, dialectVars, bindVars, dbVars>>

EnumMembers == {<<"active">>, <<"active", "retired">>, <<"users", "status">>}
TableNames == {"users", "orders"}
AttributeNames == {"status", "kind"}
FieldNames == {None, "user_status"}

\* The usage contexts a type can be attached to: an attribute of a model,
\* or a column of a table.
ModelContext(tableName, attributeName, field) ==
  [NoContext EXCEPT !.kind = "model", !.tableName = tableName,
                    !.attributeName = attributeName, !.field = field]
ColumnContext(tableName, columnName) ==
  [NoContext EXCEPT !.kind = "column", !.tableName = tableName, !.columnName = columnName]
UsageContexts ==
  {ModelContext(t, a, f) : t \in TableNames, a \in AttributeNames, f \in FieldNames}
    \cup {ColumnContext(t, c) : t \in TableNames, c \in AttributeNames}

\* new DataTypes.ENUM(...values): a new, unattached instance
ConstructEnum(values) ==
  /\ dataType' = [NoType EXCEPT !.kind = "ENUM", !.values = values]
  /\ usageContext' = NoContext
  /\ lastCall' = [NoCall EXCEPT !.op = "construct", !.given = dataType']
  /\ UNCHANGED <<warnings, run, dialectVars, bindVars, dbVars>>

\* dataType.attachUsageContext(context): a type is attached at most once
AttachUsageContext(context) ==
  /\ dataType.kind = "ENUM"
  /\ usageContext = NoContext
  /\ usageContext' = context
  /\ lastCall' = [NoCall EXCEPT !.op = "attach"]
  /\ UNCHANGED <<dataType, warnings, run, dialectVars, bindVars, dbVars>>

NextRender ==
  \/ \E elementType \in ElementClasses \cup RawElementTypes :
       Construct("ARRAY", JsAbsent, FALSE, JsAbsent, elementType)
  \/ \E values \in FlatArrays : Escape(values)
  \/ \E values \in EnumMembers : ConstructEnum(values)
  \/ \E context \in UsageContexts : AttachUsageContext(context)
  \/ ToSql

SpecRender == InitTypes /\ [][NextRender]_vars

\* The renderings of the elements, joined by ','.
JoinedElements(type, values) ==
  join([i \in 1..Len(values.e) |->
          IF isString(type) THEN String(values.e[i]) ELSE Element_escape(type, values.e[i])],
       ",")

\* The '::<element type>[]' cast.
Cast(type) == "::" \o attributeTypeToSql(type) \o "[]"

\* C11 as stated: ARRAY.escape(values) is 'ARRAY[' + the element renderings
\* joined by ',' + ']', with no cast when the element type is STRING, TEXT
\* or INTEGER and followed by '::<element type>[]' for every other element
\* type.
C11_AsStated ==
  lastCall.op = "escape" =>
    lastCall.outcome.value.s =
      "ARRAY[" \o JoinedElements(dataType.type, lastCall.arg) \o "]"
         \o (IF dataType.type \in {"STRING", "TEXT", "INTEGER"} THEN ""
             ELSE Cast(dataType.type))

\* C11: ARRAY.escape(values) is 'ARRAY[' + the element renderings joined by
\* ',' + ']', with no cast when the element type is STRING, TEXT or INTEGER
\* and values is not empty, and followed by '::<element type>[]' for every
\* other element type and for every empty array.
C11_CastUnlessUnambiguous ==
  lastCall.op = "escape" =>
    lastCall.outcome.value.s =
      "ARRAY[" \o JoinedElements(dataType.type, lastCall.arg) \o "]"
         \o (IF dataType.type \in {"STRING", "TEXT", "INTEGER"} /\ lastCall.arg.e # <<>>
               THEN ""
               ELSE Cast(dataType.type))

C11_Witness ==
  /\ lastCall.op = "escape"
  /\ dataType.type = "INTEGER"
  /\ lastCall.arg = JsArr(<<>>)
  /\ lastCall.outcome.value = JsStr("ARRAY[]::INTEGER[]")

\* The column an attached ENUM belongs to.
OwningColumn ==
  IF usageContext.kind = "model"
    THEN (IF usageContext.field # None THEN usageContext.field
          ELSE usageContext.attributeName)
    ELSE usageContext.columnName

\* C12: ENUM.toSql() fails when the type has no usage context; attached, it
\* returns the enum type name of (table, column): the model's table and the
\* attribute's field name, or the attribute name when no field is set, for a
\* model context, the context's tableName and columnName for a column
\* context. The name is the same whatever the member list is.
C12_EnumTypeName ==
  (lastCall.op = "toSql" /\ dataType.kind = "ENUM") =>
    IF usageContext = NoContext
      THEN /\ lastCall.outcome.threw
           /\ lastCall.outcome.error = "Error"
           /\ lastCall.outcome.value = JsUndefined
      ELSE /\ ~lastCall.outcome.threw
           /\ lastCall.outcome.value = JsStr(pgEnumName(usageContext.tableName, OwningColumn))
           /\ \A values \in EnumMembers :
                ENUM_toSql([dataType EXCEPT !.values = values], usageContext)
                  = lastCall.outcome

C12_Witness ==
  /\ lastCall.op = "toSql"
  /\ dataType.kind = "ENUM" /\ dataType.values = <<"users", "status">>
  /\ usageContext = ModelContext("orders", "kind", "user_status")
  /\ lastCall.outcome.value = JsStr(pgEnumName("orders", "user_status"))

(***************************************************************************)
(* Component: a statement-rendering run. The query generator takes the     *)
(* attribute's data type and a value, validates the value, and renders it  *)
(* inline (escape) or as a bind parameter (getBindParamSql).               *)
(***************************************************************************)
RenderModes == {"inline", "bind"}

\* A data type without options.
Plain(kind) == [NoType EXCEPT !.kind = kind]

\* One call of a data type method made during the run.
Call(method, kind, arg, ok) == [method |-> method, kind |-> kind, arg |-> arg, ok |-> ok]

\* <element type>.toBindableValue(value)
Element_toBindableValue(type, value) ==
  IF type = "DATE" THEN DATE_toBindableValue(Plain("DATE"), value) ELSE Result(value)

\* ARRAY.getBindParamSql(values, options): what options.bindParam is given
\* and the placeholder it returns
ARRAY_getBindParamSql(self, values, collector) ==
  IF isString(self.type)
    THEN collect(collector, values)
    ELSE collect(collector,
                 JsArr([i \in 1..Len(values.e) |->
                          Element_toBindableValue(self.type, values.e[i]).value]))

\* dataType.validate(value) by class
validate(self, value) ==
  IF self.kind = "ARRAY" THEN ARRAY_validate(self, value) ELSE DATE_validate(self, value)

\* The calls validate makes: its own, and through the base ARRAY validation
\* one per element up to the first element refused.
ValidateCalls(self, value) ==
  <<Call("validate", self.kind, value, ~validate(self, value).threw)>>
    \o (IF self.kind = "ARRAY" /\ self.type = "DATE" /\ IsArray(value)
           /\ getArrayDepth(value) <= 1
          THEN LET refused == {i \in 1..Len(value.e) :
                                 BaseElement_validate("DATE", value.e[i]).threw}
                   last == IF refused = {} THEN Len(value.e)
                           ELSE CHOOSE i \in refused : \A j \in refused : i <= j
               IN [i \in 1..last |->
                     Call("validate", "DATE", value.e[i],
                          ~BaseElement_validate("DATE", value.e[i]).threw)]
          ELSE <<>>)

\* The calls rendering makes: DATE renders through toBindableValue, ARRAY
\* through escape or getBindParamSql, and an ARRAY of DATE through the
\* element's toBindableValue for every element.
RenderCalls(self, value, mode) ==
  IF self.kind = "DATE" THEN <<Call("toBindableValue", "DATE", value, TRUE)>>
  ELSE <<Call(IF mode = "inline" THEN "escape" ELSE "getBindParamSql", "ARRAY", value, TRUE)>>
         \o (IF self.type = "DATE"
               THEN [i \in 1..Len(value.e) |->
                       Call("toBindableValue", "DATE", value.e[i], TRUE)]
               ELSE <<>>)

\* The text and the bind parameters rendering gives.
Rendered(self, value, mode) ==
  LET bindable == DATE_toBindableValue(self, value).value
      fresh == createSpecifiedOrderedBindCollector
  IN CASE self.kind = "DATE" /\ mode = "inline" ->
            [sql |-> "'" \o String(bindable) \o "'", bound |-> <<>>]
       [] self.kind = "DATE" /\ mode = "bind" ->
            [sql |-> collect(fresh, bindable).placeholder,
             bound |-> getBindParams(collect(fresh, bindable).collector)]
       [] self.kind = "ARRAY" /\ mode = "inline" ->
            [sql |-> ARRAY_escape(self, value), bound |-> <<>>]
       [] OTHER ->
            [sql |-> ARRAY_getBindParamSql(self, value, fresh).placeholder,
             bound |-> getBindParams(ARRAY_getBindParamSql(self, value, fresh).collector)]

RunArrayInputs == ArrayInputs \cup ArraysOver({JsNum(1), JsInfinity}, MaxArrayLen)

\* The query generator starts on a value of an attribute of the type.
BeginRun(value, mode) ==
  /\ dataType.kind \in {"ARRAY", "DATE"}
  /\ run.phase = "idle"
  /\ value \in (IF dataType.kind = "ARRAY" THEN RunArrayInputs ELSE DateInputs)
  /\ run' = [NoRun EXCEPT !.phase = "begun", !.type = dataType, !.value = value,
                          !.mode = mode]
  /\ UNCHANGED <<dataType, warnings, lastCall, usageContext, dialectVars, bindVars, dbVars>>

\* The value is validated; a data validation error ends the run.
ValidateValue ==
  /\ run.phase = "begun"
  /\ run' = [run EXCEPT !.phase = IF validate(run.type, run.value).threw
                                    THEN "failed" ELSE "validated",
                        !.threw = validate(run.type, run.value).threw,
                        !.calls = @ \o ValidateCalls(run.type, run.value)]
  /\ UNCHANGED <<dataType, warnings, lastCall, usageContext, dialectVars, bindVars, dbVars>>

\* The accepted value is rendered and the SQL returned.
RenderValue ==
  /\ run.phase = "validated"
  /\ run' = [run EXCEPT !.phase = "rendered",
                        !.calls = @ \o RenderCalls(run.type, run.value, run.mode),
                        !.sql = Rendered(run.type, run.value, run.mode).sql,
                        !.bound = Rendered(run.type, run.value, run.mode).bound]
  /\ UNCHANGED <<dataType, warnings, lastCall, usageContext, dialectVars, bindVars, dbVars>>

NextRun ==
  \/ \E elementType \in ElementClasses \cup RawElementTypes \cup {"ARRAY(INTEGER)"} :
       Construct("ARRAY", JsAbsent, FALSE, JsAbsent, elementType)
  \/ \E precision \in {JsAbsent, JsNum(3)} :
       Construct("DATE", JsAbsent, FALSE, precision, "none")
  \/ \E value \in RunArrayInputs \cup DateInputs, mode \in RenderModes : BeginRun(value, mode)
  \/ ValidateValue
  \/ RenderValue

SpecRun == InitTypes /\ [][NextRun]_vars

RenderMethods == {"toBindableValue", "getBindParamSql", "escape"}

\* C15: in a rendering run every value passed to toBindableValue,
\* getBindParamSql or escape was accepted before by validate of the same
\* type; when validate raises, nothing is rendered and no SQL is returned;
\* DATE.toBindableValue is never called with an infinity, ARRAY.escape and
\* ARRAY.getBindParamSql never with a nested array.
C15_ValidatedBeforeRendered ==
  /\ \A i \in 1..Len(run.calls) :
       run.calls[i].method \in RenderMethods =>
         /\ \E j \in 1..(i - 1) :
              /\ run.calls[j].method = "validate"
              /\ run.calls[j].kind = run.calls[i].kind
              /\ run.calls[j].arg = run.calls[i].arg
              /\ run.calls[j].ok
         /\ run.calls[i].kind = "DATE" => run.calls[i].arg \notin {JsInfinity, JsNegInfinity}
         /\ run.calls[i].kind = "ARRAY" => ~HasArrayElement(run.calls[i].arg)
  /\ run.threw =>
       /\ run.phase = "failed"
       /\ run.sql = "" /\ run.bound = <<>>
       /\ \A i \in 1..Len(run.calls) : run.calls[i].method \notin RenderMethods
  /\ run.phase = "rendered" => ~run.threw /\ run.sql # ""

C15_Witness ==
  /\ run.phase = "failed"
  /\ run.type.kind = "ARRAY" /\ run.type.type = "DATE"
  /\ run.value = JsArr(<<JsNum(1), JsInfinity>>)
  /\ Len(run.calls) = 3
  /\ ~run.calls[3].ok

(***************************************************************************)
(* Component: BIGINT values written as text.                               *)
(***************************************************************************)
MaxChars == 3

\* Strings of at most MaxChars characters of digits, signs, decimal point,
\* exponent mark and blank, and values that are not strings.
StringifyInputs ==
  {JsText(chars) :
     chars \in UNION {[1..k -> {"7", "+", "-", ".", "e", " "}] : k \in 0..MaxChars}}
    \cup {JsNum(0), JsNum(42), JsNum(-5), JsInfinity, JsNegInfinity,
          JsValue("number", 0, "NaN", <<>>), JsNull, JsUndefined,
          JsExact(-1, MAX_SAFE_INTEGER), JsExact(1, PowerOfTen(21)),
          JsBigInt(-1, PowerOfTen(21))}

\* bigint.$stringify(value)
Stringify(value) ==
  /\ dataType.kind = "BIGINT"
  /\ lastCall' = [NoCall EXCEPT !.op = "$stringify", !.arg = value,
                                !.outcome = BIGINT_stringify(dataType, value)]
  /\ UNCHANGED <<dataType, warnings, usageContext, run, dialectVars, bindVars, dbVars>>

NextBigint ==
  \/ Construct("BIGINT", JsAbsent, FALSE, JsAbsent, "none")
  \/ \E value \in StringifyInputs : Stringify(value)

SpecBigint == InitTypes /\ [][NextBigint]_vars

\* The text is an optional single '+' or '-' followed by one or more
\* decimal digits.
DecimalInteger(chars) ==
  \E signs \in {0, 1} :
    /\ Len(chars) > signs
    /\ signs = 1 => chars[1] \in {"+", "-"}
    /\ \A i \in (signs + 1)..Len(chars) :
         \E d \in 0..9 : chars[i] = ToString(d)

\* C17: BIGINT.$stringify(value) returns String(value) when that text is an
\* optional single '+' or '-' followed by one or more decimal digits, and
\* raises a data validation error '<value> is not a valid integer' for every
\* other input; what it returns is always an exact decimal integer.
C17_DecimalIntegerText ==
  lastCall.op = "$stringify" =>
    /\ join(Characters(lastCall.arg), "") = String(lastCall.arg)
    /\ IF DecimalInteger(Characters(lastCall.arg))
         THEN /\ ~lastCall.outcome.threw
              /\ lastCall.outcome.value = JsStr(String(lastCall.arg))
         ELSE /\ lastCall.outcome.threw
              /\ lastCall.outcome.error = "ValidationError"
              /\ lastCall.outcome.message = Json(lastCall.arg) \o " is not a valid integer"
              /\ lastCall.outcome.value = JsUndefined

C17_Witness ==
  /\ lastCall.op = "$stringify"
  /\ lastCall.arg = JsText(<<"+", "7", "e">>)
  /\ lastCall.outcome.threw
  /\ lastCall.outcome.message = "\"+7e\" is not a valid integer"

(***************************************************************************)
(* All four components together.                                          *)
(***************************************************************************)
Init ==
  /\ dialectName \in Dialects
  /\ supports = DialectSupports(dialectName)
  /\ quoteIdentifiers \in BOOLEAN
  /\ lastQuery = NoQuery
  /\ lastRead = NoRead
  /\ collectors = <<>>
  /\ stmts = [s \in StatementIds |-> NoStatement]
  /\ schema \in BOOLEAN
  /\ committed = {}
  /\ tx = NoTransaction
  /\ emitted = <<>>
  /\ lastOp = NoOp
  /\ InitTypesIdle

Next == NextDialect \/ NextBind \/ NextDb \/ NextTypes

Spec == Init /\ [][Next]_vars

====
